---- MODULE Spec2Model ----
(***************************************************************************)
(* PySIP: the SIP call orchestrator (PySIP/sip_call.py, class SipCall).    *)
(*                                                                         *)
(* One call is modelled as a set of cooperating asyncio tasks on a single  *)
(* event loop: the INVITE task, the receive pump (which runs               *)
(* message_handler and then error_handler for every incoming message) and  *)
(* the tasks of the user that call SipCall.stop.  A step of the model is   *)
(* the code a task runs between two suspension points (a socket send, the  *)
(* wait on the Terminated flag, the wait for the RTP task).                *)
(*                                                                         *)
(* PySIP/sip_core.py (SipCore, SipDialogue) is not part of the sources;    *)
(* the definitions that stand for it (the transaction list, update_state,  *)
(* the Terminated flag, the receive pump) follow the design document.      *)
(***************************************************************************)
EXTENDS Integers, Sequences, FiniteSets, TLC

VARIABLES
    started,        \* SipCall.start has connected and spawned its tasks
    invitePc,       \* the INVITE task: "ready" | "done"
    pc,             \* position of the receive pump "rx" and of the user's stop tasks
    cur,            \* the message the receive pump is handling
    ret,            \* where the pump resumes when a stop it called returns
    stopReason,     \* the reason argument of the stop each task is running
    dialogState,    \* dialogue.state
    termEvent,      \* dialogue.events[DialogState.TERMINATED] is set
    callState,      \* SipCall.call_state
    transactions,   \* dialogue.transactions
    nextBranch,     \* the next token of sip_core.gen_branch
    authRetry,      \* dialogue.auth_retry_count
    remoteTag,      \* dialogue.remote_tag
    sipRunning,     \* sip_core.is_running
    sipClosed,      \* the SIP connections have been closed
    rtp,            \* SipCall._rtp_session: "none" | "running" | "stopped"
    nrecv,          \* number of messages the pump has taken
    peer,           \* the run: "any" peer | "auth", a peer that only challenges |
                    \* "stops", any peer and a user who calls stop repeatedly |
                    \* "cancel", a peer that rings and answers a CANCEL |
                    \* "broken", any peer and a transport that breaks |
                    \* "rtp", "rfc2833", "dtmf", "dtmflen", "rtpclient": the
                    \* media side alone | "start": SipCall.start and its tasks
    trace,          \* history: what the call did, in order
    rtpPacket,      \* an RtpPacket: out_sequence, out_timestamp, headers built
    rfc2833,        \* RTPClient._handle_rfc_2833: packets handled, callbacks made
    dtmfHandler,    \* a DTMFHandler: its queue and a get_dtmf in progress
    rtpClient,      \* an RTPClient: its codec, running flag, loops and packets
    starter,        \* SipCall.start: its position, its three tasks, its outcome
    voip            \* a legacy VOIP: its states, its handlers at work, its sessions

\* the state of the media side of a call
media == <<rtpPacket, rfc2833, dtmfHandler, rtpClient>>

\* the state of the activities modelled apart from the call's messages
apart == <<starter, voip>>

\* the state of the SIP side of a call
sip == <<started, invitePc, pc, cur, ret, stopReason, dialogState, termEvent,
         callState, transactions, nextBranch, authRetry, remoteTag,
         sipRunning, sipClosed, rtp, nrecv, peer, trace>>

vars == <<started, invitePc, pc, cur, ret, stopReason, dialogState, termEvent,
          callState, transactions, nextBranch, authRetry, remoteTag,
          sipRunning, sipClosed, rtp, nrecv, peer, trace, media, apart>>

----------------------------------------------------------------------------
(* Bounds of the model *)

MaxMsgs == 2        \* incoming messages per call
MaxAuthMsgs == 4    \* incoming messages of a peer that only challenges
MaxStops == 2       \* stop calls of a user who calls stop repeatedly
MaxStopMsgs == 1    \* incoming messages while the user calls stop repeatedly
MaxCancelMsgs == 3  \* incoming messages of a peer that rings and answers a CANCEL
MaxBrokenMsgs == 1  \* incoming messages of a call whose transport breaks
MaxPackets == 4     \* packets built by one RtpPacket
MaxDtmfPackets == 4 \* telephone-event packets of one key press
MaxKeys == 3        \* keys queued for one get_dtmf
MaxGets == 2        \* calls of get_dtmf(length=N) on one DTMFHandler
MaxCodecs == 2      \* codecs of a remote rtpmap
MaxFrames == 2      \* frames put on the input queue of an RTPClient
MaxTeardownMsgs == 2 \* incoming messages of a peer that rejects a BYE or CANCEL
MaxAnswerMsgs == 3  \* incoming messages of a peer that answers and repeats itself
MaxForeignMsgs == 2 \* incoming messages of a connection shared with other calls
MaxVoipMsgs == 5    \* messages the client of a legacy VOIP hands to its handlers

----------------------------------------------------------------------------
(* Constants of the program *)

\* dialogue.AUTH_RETRY_MAX, compared at sip_call.py:380 (defined in sip_core.py)
AUTH_RETRY_MAX == 1

\* the tasks: the receive pump and the tasks of the user that call stop
Rx == 0
Procs == DOMAIN pc
Users == Procs \ {Rx}

DialogStates == {"PREDIALOG", "INITIAL", "EARLY", "CONFIRMED", "TERMINATED"}
CallStates == {"INITIALIZING", "DAILING", "RINGING", "ANSWERED", "ENDED",
               "BUSY", "FAILED"}

BusyStatuses == {486, 600, 603}

\* SIPStatus.phrase
Phrase(st) ==
    CASE st = 302 -> "Moved Temporarily"
      [] st = 401 -> "Unauthorized"
      [] st = 407 -> "Proxy Authentication Required"
      [] st = 481 -> "Call/Transaction Does Not Exist"
      [] st = 486 -> "Busy Here"
      [] st = 487 -> "Request Terminated"
      [] st = 500 -> "Server Internal Error"
      [] st = 600 -> "Busy Everywhere"
      [] st = 603 -> "Decline"
      [] OTHER    -> "Unknown"

NoMsg == [type |-> "none", status |-> 0, method |-> "", branch |-> 0,
          own |-> TRUE, totag |-> "", fromClient |-> FALSE, sdp |-> "none"]

\* an entry of the history: what happened (ev, arg), the branch and the
\* status it concerns, and the state of the dialog when the step began
Ev(e, a, b, s) == [ev |-> e, arg |-> a, br |-> b, st |-> s, ds |-> dialogState]
RecvEv(m) == Ev("recv", m.method, m.branch, m.status) @@ [own |-> m.own]
SendEv(kind, b, s) == Ev("send", kind, b, s)
HangupEv(reason) == Ev("hangup", reason, 0, 0)
CloseEv == Ev("sip_close", "", 0, 0)
FailedEv(kind) == Ev("failed", kind, 0, 0)

Last(s) == s[Len(s)]

----------------------------------------------------------------------------
(* SipDialogue *)

\* SipDialogue.find_transaction: the first transaction with that branch
HasTransaction(txs, b) == \E i \in 1..Len(txs) : txs[i].branch = b
find_transaction(txs, b) ==
    txs[CHOOSE i \in 1..Len(txs) :
            /\ txs[i].branch = b
            /\ \A j \in 1..(i - 1) : txs[j].branch # b]

\* SipDialogue.add_transaction
add_transaction(txs, b, m) == Append(txs, [branch |-> b, method |-> m])

\* a response to an INVITE of the dialog: its branch is the branch of an
\* INVITE transaction
AnswersInvite(txs, m) ==
    /\ m.type = "resp" /\ m.method = "INVITE"
    /\ \E i \in 1..Len(txs) :
          txs[i].branch = m.branch /\ txs[i].method = "INVITE"

\* SipDialogue.update_state: the transitions of the dialog on a message
update_state(ds, txs, m) ==
    IF /\ AnswersInvite(txs, m)
       /\ m.status \in 100..199 /\ m.totag # "" /\ ds = "INITIAL"
    THEN "EARLY"
    ELSE IF /\ AnswersInvite(txs, m)
            /\ m.status \in 200..299 /\ ds \in {"INITIAL", "EARLY"}
    THEN "CONFIRMED"
    ELSE IF /\ AnswersInvite(txs, m)
            /\ m.status \in 300..699 /\ m.status \notin {401, 407}
            /\ ds \in {"INITIAL", "EARLY"}
    THEN "TERMINATED"
    ELSE IF /\ ds = "CONFIRMED" /\ m.method = "BYE"
            /\ (m.type = "req" \/ m.status \in 200..299)
    THEN "TERMINATED"
    ELSE ds

\* the flag of the state the dialog is in is set by update_state
EventAfter(ev, ds) == ev \/ ds = "TERMINATED"

----------------------------------------------------------------------------
(* SipCall.stop, up to its first suspension                                *)

\* the call of stop, with the state of the dialog it finds
StopEv(reason, ds) == [Ev("stop", reason, 0, 0) EXCEPT !.ds = ds]

StopBegin(reason, ds, txs, nb, tr) ==
    LET tr0 == Append(tr, StopEv(reason, ds))
    IN
    IF ds \in {"PREDIALOG", "TERMINATED"}
    THEN [pc |-> "stop_cleanup", txs |-> txs, nb |-> nb,
          tr |-> tr0 \o <<CloseEv, HangupEv(reason)>>,
          running |-> FALSE, closed |-> TRUE]
    ELSE IF ds \in {"INITIAL", "EARLY"}
    THEN IF sipClosed
         THEN [pc |-> "dead", txs |-> txs, nb |-> nb,
               tr |-> Append(tr0, FailedEv("CANCEL")),
               running |-> sipRunning, closed |-> sipClosed]
         ELSE [pc |-> "stop_wait", txs |-> txs, nb |-> nb,
               tr |-> Append(tr0, SendEv("CANCEL", Last(txs).branch, 0)),
               running |-> sipRunning, closed |-> sipClosed]
    ELSE \* CONFIRMED: bye_generator adds the BYE transaction
         IF sipClosed
         THEN [pc |-> "dead", txs |-> add_transaction(txs, nb, "BYE"),
               nb |-> nb + 1, tr |-> Append(tr0, FailedEv("BYE")),
               running |-> sipRunning, closed |-> sipClosed]
         ELSE [pc |-> "stop_wait", txs |-> add_transaction(txs, nb, "BYE"),
               nb |-> nb + 1, tr |-> Append(tr0, SendEv("BYE", nb, 0)),
               running |-> sipRunning, closed |-> sipClosed]

----------------------------------------------------------------------------
InitCall ==
    /\ started = FALSE
    /\ invitePc = "ready"
    /\ cur = NoMsg
    /\ ret = "none"
    /\ dialogState = "PREDIALOG"
    /\ termEvent = FALSE
    /\ callState = "INITIALIZING"
    /\ transactions = <<>>
    /\ nextBranch = 1
    /\ authRetry = 0
    /\ remoteTag = ""
    /\ sipRunning = FALSE
    /\ sipClosed = FALSE
    /\ rtp = "none"
    /\ nrecv = 0
    /\ trace = <<>>

\* the media side before a call is answered: no packet built, no
\* telephone-event handled, no key queued
NoPacket == [out_sequence |-> 0, out_timestamp |-> <<0, 0>>, sent |-> <<>>]
NoEvents == [packets |-> <<>>, calls |-> <<>>]
NoKeys == [queue |-> <<>>, finish_on_key |-> "", dtmf_codes |-> <<>>,
           returned |-> FALSE, typed |-> <<>>]

NoClient == [state |-> "none"]

\* SipCall.start not looked at
NoStart == [pc |-> "none"]
\* the legacy VOIP class not looked at
NoVoip == [state |-> "none"]
InitApart == starter = NoStart /\ voip = NoVoip

InitIdleMedia ==
    /\ rtpPacket = NoPacket
    /\ rfc2833 = NoEvents
    /\ dtmfHandler = NoKeys
    /\ rtpClient = NoClient

Tasks(n) ==
    /\ pc = [p \in 0..n |-> "idle"]
    /\ stopReason = [p \in 0..n |-> ""]

\* the program of test.py: the call and one task that stops it
Init == InitCall /\ InitIdleMedia /\ InitApart /\ Tasks(1) /\ peer = "any"

\* SipCall.start: connect, register on_call_answered, spawn the tasks
Start ==
    /\ ~started
    /\ started' = TRUE
    /\ sipRunning' = TRUE
    /\ sipClosed' = FALSE
    /\ UNCHANGED <<media, apart, invitePc, pc, cur, ret, stopReason, dialogState, termEvent,
                   callState, transactions, nextBranch, authRetry, remoteTag,
                   rtp, nrecv, peer, trace>>

\* SipCall.invite: the first INVITE, on a new branch
Invite ==
    /\ started
    /\ invitePc = "ready"
    /\ pc[Rx] # "dead"
    /\ invitePc' = "done"
    /\ transactions' = add_transaction(transactions, nextBranch, "INVITE")
    /\ nextBranch' = nextBranch + 1
    /\ IF sipClosed
       THEN \* the send raises; start cancels the receive task
            /\ trace' = Append(trace, FailedEv("INVITE"))
            /\ pc' = [pc EXCEPT ![Rx] = "dead"]
            /\ UNCHANGED dialogState
       ELSE /\ trace' = Append(trace, SendEv("INVITE", nextBranch, 0))
            /\ dialogState' = IF dialogState = "PREDIALOG" THEN "INITIAL"
                              ELSE dialogState
            /\ UNCHANGED pc
    /\ UNCHANGED <<media, apart, peer, started, cur, ret, stopReason, termEvent, callState,
                   authRetry, remoteTag, sipRunning, sipClosed, rtp, nrecv>>

\* the user calls SipCall.stop()
UserStop(u) ==
    /\ pc[u] = "idle"
    /\ \A v \in Users : v < u => pc[v] # "idle"
    /\ LET s == StopBegin("Normal Stop", dialogState, transactions,
                          nextBranch, trace)
       IN /\ pc' = [pc EXCEPT ![u] = s.pc]
          /\ transactions' = s.txs
          /\ nextBranch' = s.nb
          /\ trace' = s.tr
          /\ sipRunning' = s.running
          /\ sipClosed' = s.closed
    /\ stopReason' = [stopReason EXCEPT ![u] = "Normal Stop"]
    /\ UNCHANGED <<media, apart, peer, started, invitePc, cur, ret, dialogState, termEvent,
                   callState, authRetry, remoteTag, rtp, nrecv>>

\* faulty variant: the wait for Terminated has no timeout
WaitEnds_NoTimeout(ev) == ev

\* asyncio.wait_for(events[TERMINATED].wait(), timeout=5) returns when the
\* flag is set and also when it is not: the timeout ends the wait
WaitEnds(ev) == ev \/ ~ev

\* stop: the wait for Terminated ends (flag set, or the 5 s timeout); the
\* connections are closed and the hanged_up callbacks are notified
StopWait(p) ==
    /\ pc[p] = "stop_wait"
    /\ WaitEnds(termEvent)
    /\ pc' = [pc EXCEPT ![p] = "stop_cleanup"]
    /\ sipRunning' = FALSE
    /\ sipClosed' = TRUE
    /\ trace' = trace \o
          <<Ev("wait_done", IF termEvent THEN "terminated" ELSE "timeout", 0, 0),
            CloseEv, HangupEv(stopReason[p])>>
    /\ UNCHANGED <<media, apart, peer, started, invitePc, cur, ret, stopReason, dialogState,
                   termEvent, callState, transactions, nextBranch, authRetry,
                   remoteTag, rtp, nrecv>>

\* SipCall._cleanup_rtp
cleanup_rtp(r) == IF r = "running" THEN "stopped" ELSE r
CleanupTrace(tr, r) ==
    IF r = "running" THEN Append(tr, Ev("rtp_stop", "", 0, 0)) ELSE tr

\* the stop of a user's task ends with _cleanup_rtp
UserStopCleanup(u) ==
    /\ u \in Users
    /\ pc[u] = "stop_cleanup"
    /\ pc' = [pc EXCEPT ![u] = "done"]
    /\ rtp' = cleanup_rtp(rtp)
    /\ trace' = CleanupTrace(trace, rtp)
    /\ UNCHANGED <<media, apart, peer, started, invitePc, cur, ret, stopReason, dialogState,
                   termEvent, callState, transactions, nextBranch, authRetry,
                   remoteTag, sipRunning, sipClosed, nrecv>>

----------------------------------------------------------------------------
(* Incoming messages *)

BranchesOf(meth) ==
    {transactions[i].branch :
        i \in {j \in 1..Len(transactions) : transactions[j].method = meth}}

\* the branch of the latest INVITE of the call
LastInvite ==
    LET I == BranchesOf("INVITE")
    IN IF I = {} THEN {} ELSE {CHOOSE b \in I : \A c \in I : c <= b}

Resp(st, meth, b, tag, fc, sdp) ==
    [type |-> "resp", status |-> st, method |-> meth, branch |-> b,
     own |-> TRUE, totag |-> tag, fromClient |-> fc, sdp |-> sdp]

FinalStatuses == {302, 401, 407, 486, 487, 500, 603}

\* what a peer that challenges and rings sends: a 401 on a branch of an
\* INVITE of the call or on an unknown branch, a 100 or a 180
AuthIncoming ==
    {Resp(401, "INVITE", b, "t", TRUE, "none") :
        b \in BranchesOf("INVITE") \cup {0}}
    \cup {Resp(100, "INVITE", b, "", TRUE, "none") : b \in LastInvite}
    \cup {Resp(180, "INVITE", b, "t", TRUE, "none") : b \in LastInvite}

\* what any peer sends: a final response to an INVITE (on its branch, or on
\* a branch the call never used), a provisional response, a 200 with or
\* without a usable SDP, the 200 of a BYE of the call, a BYE request
AnyIncoming ==
    {Resp(st, "INVITE", b, "t", TRUE, "none") :
        st \in FinalStatuses, b \in BranchesOf("INVITE") \cup {0}}
    \cup {Resp(100, "INVITE", b, "", TRUE, "none") : b \in LastInvite}
    \cup {Resp(180, "INVITE", b, "t", TRUE, "none") : b \in LastInvite}
    \cup {Resp(200, "INVITE", b, "t", TRUE, sdp) :
            b \in LastInvite, sdp \in {"ok", "none", "nocodec"}}
    \cup {Resp(200, "BYE", b, "t", TRUE, "none") : b \in BranchesOf("BYE")}
    \cup {[type |-> "req", status |-> 0, method |-> "BYE", branch |-> 0,
           own |-> TRUE, totag |-> "t", fromClient |-> FALSE, sdp |-> "none"]}

\* the branches the call has sent a CANCEL on
CancelBranches ==
    {trace[i].br :
        i \in {j \in 1..Len(trace) :
                  trace[j].ev = "send" /\ trace[j].arg = "CANCEL"}}

\* what a peer that rings and honours a CANCEL sends: a 180, the 200 of a
\* CANCEL of the call, a 487 to an INVITE of the call
CancelIncoming ==
    {Resp(180, "INVITE", b, "t", TRUE, "none") : b \in LastInvite}
    \cup {Resp(200, "CANCEL", b, "t", TRUE, "none") : b \in CancelBranches}
    \cup {Resp(487, "INVITE", b, "t", TRUE, "none") : b \in BranchesOf("INVITE")}

\* what a peer that rejects a teardown sends besides: a 481 to a BYE or to
\* a CANCEL of the call, on the branch the request carried
TeardownIncoming ==
    AnyIncoming
    \cup {Resp(481, "BYE", b, "t", TRUE, "none") : b \in BranchesOf("BYE")}
    \cup {Resp(481, "CANCEL", b, "t", TRUE, "none") : b \in CancelBranches}

\* what a peer that answers and repeats itself sends: a 100, a 180 and a
\* 200 with a usable SDP, each on the branch of the INVITE and as often as
\* it likes, in any order
AnswerIncoming ==
    {Resp(100, "INVITE", b, "", TRUE, "none") : b \in LastInvite}
    \cup {Resp(180, "INVITE", b, "t", TRUE, "none") : b \in LastInvite}
    \cup {Resp(200, "INVITE", b, "t", TRUE, "ok") : b \in LastInvite}

\* what arrives for other calls over the same connection: responses and a
\* BYE request whose Call-ID is not the call's, of any class of status, on
\* a branch of the call or on one the call never used
ForeignStatuses == {180, 200, 401, 486, 487, 500}
ForeignIncoming ==
    {[Resp(st, "INVITE", b, "x", TRUE, "none") EXCEPT !.own = FALSE] :
        st \in ForeignStatuses, b \in BranchesOf("INVITE") \cup {0}}
    \cup {[type |-> "req", status |-> 0, method |-> "BYE", branch |-> 0,
           own |-> FALSE, totag |-> "x", fromClient |-> FALSE, sdp |-> "none"]}

Incoming ==
    CASE peer = "auth"   -> AuthIncoming
      [] peer = "foreign" -> ForeignIncoming
      [] peer = "answer" -> AnswerIncoming
      [] peer = "cancel" -> CancelIncoming
      [] peer = "teardown" -> TeardownIncoming
      [] OTHER           -> AnyIncoming
Budget ==
    CASE peer = "auth"  -> MaxAuthMsgs
      [] peer = "stops" -> MaxStopMsgs
      [] peer = "cancel" -> MaxCancelMsgs
      [] peer = "broken" -> MaxBrokenMsgs
      [] peer = "teardown" -> MaxTeardownMsgs
      [] peer = "answer" -> MaxAnswerMsgs
      [] peer = "foreign" -> MaxForeignMsgs
      [] OTHER          -> MaxMsgs

IsAuth(m) == m.own /\ m.status = 401 /\ m.method = "INVITE"
IsInviteOK(m) == m.own /\ m.status = 200 /\ m.method = "INVITE"
Is1xx(m) == m.own /\ m.status \in 100..199 /\ m.method = "INVITE"
IsByeCallee(m) == m.own /\ m.method = "BYE" /\ ~m.fromClient
IsByeClient(m) == m.own /\ m.method = "BYE" /\ m.fromClient
Is487(m) == m.own /\ m.status = 487 /\ m.method = "INVITE"

\* error_handler acts on the message: a 4xx-6xx other than 401 and 487
IsError(m) == m.status \in 400..699 /\ m.status \notin {401, 487}

\* SipCall.update_call_state: the state_changed callbacks are notified
StateTrace(tr, old, new) ==
    IF new = old THEN tr ELSE Append(tr, Ev("state_changed", new, 0, 0))

CanReceive(m) ==
    /\ started
    /\ pc[Rx] = "idle"
    /\ sipRunning
    /\ ~sipClosed
    /\ nrecv < Budget
    /\ m.own => invitePc = "done"    \* the Call-ID is unknown to the peer before
    /\ m \in Incoming

RxIdle(P) == [P EXCEPT ![Rx] = "idle"]

----------------------------------------------------------------------------
(* message_handler and error_handler *)

\* a message that message_handler handles without sending anything: a 1xx,
\* a message of a BYE transaction that is not a request from the callee, or
\* a message no branch of message_handler matches; error_handler runs next
RecvQuick(m) ==
    /\ CanReceive(m)
    /\ ~IsAuth(m) /\ ~IsInviteOK(m) /\ ~Is487(m)
    /\ ~(IsByeCallee(m) /\ m.type = "req")
    /\ nrecv' = nrecv + 1
    /\ LET cs1 == IF Is1xx(m)
                  THEN (IF m.status = 180 THEN "RINGING" ELSE "DAILING")
                  ELSE IF IsByeCallee(m) \/ IsByeClient(m) THEN "ENDED"
                  ELSE callState
           tr1 == StateTrace(Append(trace, RecvEv(m)), callState, cs1)
           ds1 == IF m.own THEN update_state(dialogState, transactions, m) ELSE dialogState
           ev1 == IF m.own THEN EventAfter(termEvent, ds1) ELSE termEvent
       IN /\ callState' = cs1
          /\ dialogState' = ds1
          /\ termEvent' = ev1
          /\ remoteTag' = IF Is1xx(m) THEN m.totag ELSE remoteTag
          /\ authRetry' = IF Is1xx(m) THEN 0 ELSE authRetry
          /\ IF IsError(m) /\ HasTransaction(transactions, m.branch)
             THEN /\ trace' = Append(tr1,
                        SendEv("ACK", find_transaction(transactions, m.branch).branch,
                               m.status))
                  /\ pc' = [pc EXCEPT ![Rx] = "error_acked"]
                  /\ cur' = m
             ELSE /\ trace' = tr1
                  /\ pc' = RxIdle(pc)
                  /\ cur' = NoMsg
    /\ UNCHANGED <<media, apart, peer, started, invitePc, ret, stopReason, transactions,
                   nextBranch, sipRunning, sipClosed, rtp>>

\* faulty variant: only 486 is taken for busy
ErrorCallState_Only486(st) == IF st = 486 THEN "BUSY" ELSE "FAILED"

\* the call state error_handler reports for a status
ErrorCallState(st) == IF st \in BusyStatuses THEN "BUSY" ELSE "FAILED"

\* error_handler after its ACK: the dialog is terminated, the call state is
\* Busy or Failed and stop is called with the phrase of the status
ErrorAfterAck ==
    /\ pc[Rx] = "error_acked"
    /\ LET cs1 == ErrorCallState(cur.status)
           tr1 == StateTrace(trace, callState, cs1)
           s == StopBegin(Phrase(cur.status), "TERMINATED", transactions,
                          nextBranch, tr1)
       IN /\ dialogState' = "TERMINATED"
          /\ termEvent' = TRUE
          /\ callState' = cs1
          /\ pc' = [pc EXCEPT ![Rx] = s.pc]
          /\ trace' = s.tr
          /\ sipRunning' = s.running
          /\ sipClosed' = s.closed
    /\ ret' = "err"
    /\ stopReason' = [stopReason EXCEPT ![Rx] = Phrase(cur.status)]
    /\ UNCHANGED <<media, apart, peer, started, invitePc, cur, transactions, nextBranch,
                   authRetry, remoteTag, rtp, nrecv>>

\* a 401 to the INVITE: ACK on the branch of the challenged transaction
RecvAuth(m) ==
    /\ CanReceive(m)
    /\ IsAuth(m)
    /\ nrecv' = nrecv + 1
    /\ remoteTag' = m.totag
    /\ IF HasTransaction(transactions, m.branch)
       THEN /\ trace' = trace \o <<RecvEv(m),
                  SendEv("ACK", find_transaction(transactions, m.branch).branch, 401)>>
            /\ pc' = [pc EXCEPT ![Rx] = "auth_acked"]
            /\ cur' = m
       ELSE /\ trace' = Append(trace, RecvEv(m))
            /\ UNCHANGED <<pc, cur>>
    /\ UNCHANGED <<media, apart, peer, started, invitePc, ret, stopReason, dialogState, termEvent,
                   callState, transactions, nextBranch, authRetry,
                   sipRunning, sipClosed, rtp>>

\* after the ACK of a 401: stop when the retries are used up, else INVITE
\* again with credentials on a new branch
AuthAfterAck ==
    /\ pc[Rx] = "auth_acked"
    /\ IF authRetry > AUTH_RETRY_MAX
       THEN LET s == StopBegin("Unable to authenticate, check details",
                               dialogState, transactions, nextBranch, trace)
            IN /\ pc' = [pc EXCEPT ![Rx] = s.pc]
               /\ transactions' = s.txs
               /\ nextBranch' = s.nb
               /\ trace' = s.tr
               /\ sipRunning' = s.running
               /\ sipClosed' = s.closed
               /\ ret' = "auth"
               /\ stopReason' = [stopReason EXCEPT
                      ![Rx] = "Unable to authenticate, check details"]
       ELSE /\ transactions' = add_transaction(transactions, nextBranch, "INVITE")
            /\ nextBranch' = nextBranch + 1
            /\ IF sipClosed
               THEN /\ pc' = [pc EXCEPT ![Rx] = "dead"]
                    /\ trace' = Append(trace, FailedEv("INVITE+auth"))
               ELSE /\ pc' = [pc EXCEPT ![Rx] = "auth_reinvited"]
                    /\ trace' = Append(trace, SendEv("INVITE+auth", nextBranch, 0))
            /\ UNCHANGED <<sipRunning, sipClosed, ret, stopReason>>
    /\ UNCHANGED <<media, apart, peer, started, invitePc, cur, dialogState, termEvent, callState,
                   authRetry, remoteTag, rtp, nrecv>>

\* after the INVITE with credentials: Dialing, one more retry counted
AuthAfterReinvite ==
    /\ pc[Rx] = "auth_reinvited"
    /\ callState' = "DAILING"
    /\ trace' = StateTrace(trace, callState, "DAILING")
    /\ authRetry' = authRetry + 1
    /\ dialogState' = update_state(dialogState, transactions, cur)
    /\ termEvent' = EventAfter(termEvent, dialogState')
    /\ pc' = RxIdle(pc)
    /\ cur' = NoMsg
    /\ UNCHANGED <<media, apart, peer, started, invitePc, ret, stopReason, transactions,
                   nextBranch, remoteTag, sipRunning, sipClosed, rtp, nrecv>>

\* dialogue.remote_session_info when the message is handled
remote_session_info(m) == m.sdp

\* faulty variant: the call is answered before the ACK of the 200 is sent
OkAckTrace_Late(tr, b) == tr

\* faulty variant: the ACK of a 200 goes out on the branch of the INVITE
OkAckTrace_OnInvite(tr, b) ==
    Append(tr, SendEv("ACK", transactions[1].branch, 200))

\* the ACK of a 200 is sent on the branch of its own transaction
OkAckTrace(tr, b) == Append(tr, SendEv("ACK", b, 200))

\* a 200 to the INVITE: ACK on a new transaction
RecvInviteOK(m) ==
    /\ CanReceive(m)
    /\ IsInviteOK(m)
    /\ nrecv' = nrecv + 1
    /\ cur' = m
    /\ remoteTag' = m.totag
    /\ transactions' = add_transaction(transactions, nextBranch, "ACK")
    /\ nextBranch' = nextBranch + 1
    /\ authRetry' = 0
    /\ trace' = OkAckTrace(Append(trace, RecvEv(m)), nextBranch)
    /\ pc' = [pc EXCEPT ![Rx] = "ok_acked"]
    /\ UNCHANGED <<media, apart, peer, started, invitePc, ret, stopReason, dialogState, termEvent,
                   callState, sipRunning, sipClosed, rtp>>

\* after the ACK of the 200: update_call_state(ANSWERED), whose callback
\* on_call_answered creates and starts the RTP session; then update_state
InviteOKAfterAck ==
    /\ pc[Rx] = "ok_acked"
    /\ IF callState = "ANSWERED"
       THEN \* update_call_state returns at once
            /\ dialogState' = update_state(dialogState, transactions, cur)
            /\ termEvent' = EventAfter(termEvent, dialogState')
            /\ pc' = RxIdle(pc)
            /\ cur' = NoMsg
            /\ UNCHANGED <<callState, trace, rtp, transactions, nextBranch,
                           sipRunning, sipClosed, ret, stopReason>>
       ELSE LET tr1 == StateTrace(trace, callState, "ANSWERED")
            IN IF remote_session_info(cur) = "none"
               THEN \* on_call_answered calls stop() and returns
                    LET s == StopBegin("Normal Stop", dialogState, transactions,
                                       nextBranch, tr1)
                    IN /\ pc' = [pc EXCEPT ![Rx] = s.pc]
                       /\ transactions' = s.txs
                       /\ nextBranch' = s.nb
                       /\ trace' = s.tr
                       /\ sipRunning' = s.running
                       /\ sipClosed' = s.closed
                       /\ ret' = "answered"
                       /\ stopReason' = [stopReason EXCEPT ![Rx] = "Normal Stop"]
                       /\ UNCHANGED <<callState, dialogState, termEvent, rtp, cur>>
               ELSE IF remote_session_info(cur) = "nocodec"
               THEN \* RTPClient raises NoSupportedCodecsFound
                    /\ pc' = [pc EXCEPT ![Rx] = "dead"]
                    /\ trace' = tr1
                    /\ UNCHANGED <<callState, dialogState, termEvent, rtp, cur,
                                   transactions, nextBranch, sipRunning,
                                   sipClosed, ret, stopReason>>
               ELSE /\ rtp' = "running"
                    /\ trace' = Append(tr1, Ev("rtp_start", "", 0, 0))
                    /\ callState' = "ANSWERED"
                    /\ dialogState' = update_state(dialogState, transactions, cur)
                    /\ termEvent' = EventAfter(termEvent, dialogState')
                    /\ pc' = RxIdle(pc)
                    /\ cur' = NoMsg
                    /\ UNCHANGED <<transactions, nextBranch, sipRunning,
                                   sipClosed, ret, stopReason>>
    /\ UNCHANGED <<media, apart, peer, started, invitePc, authRetry, remoteTag, nrecv>>

\* a BYE request of the callee: Ended, 200 OK
RecvBye(m) ==
    /\ CanReceive(m)
    /\ IsByeCallee(m) /\ m.type = "req"
    /\ nrecv' = nrecv + 1
    /\ cur' = m
    /\ callState' = "ENDED"
    /\ trace' = Append(StateTrace(Append(trace, RecvEv(m)), callState, "ENDED"),
                       SendEv("200", m.branch, 0))
    /\ pc' = [pc EXCEPT ![Rx] = "bye_oked"]
    /\ UNCHANGED <<media, apart, peer, started, invitePc, ret, stopReason, dialogState, termEvent,
                   transactions, nextBranch, authRetry, remoteTag,
                   sipRunning, sipClosed, rtp>>

\* after the 200 OK of the BYE: stop("Callee hanged up")
ByeAfterOK ==
    /\ pc[Rx] = "bye_oked"
    /\ LET s == StopBegin("Callee hanged up", dialogState, transactions,
                          nextBranch, trace)
       IN /\ pc' = [pc EXCEPT ![Rx] = s.pc]
          /\ transactions' = s.txs
          /\ nextBranch' = s.nb
          /\ trace' = s.tr
          /\ sipRunning' = s.running
          /\ sipClosed' = s.closed
    /\ ret' = "bye"
    /\ stopReason' = [stopReason EXCEPT ![Rx] = "Callee hanged up"]
    /\ UNCHANGED <<media, apart, peer, started, invitePc, cur, dialogState, termEvent, callState,
                   authRetry, remoteTag, rtp, nrecv>>

\* a 487 to the INVITE: ACK on the branch of the transaction
RecvCancelled(m) ==
    /\ CanReceive(m)
    /\ Is487(m)
    /\ nrecv' = nrecv + 1
    /\ IF HasTransaction(transactions, m.branch)
       THEN /\ trace' = trace \o <<RecvEv(m),
                  SendEv("ACK", find_transaction(transactions, m.branch).branch, 487)>>
            /\ pc' = [pc EXCEPT ![Rx] = "cancelled_acked"]
            /\ cur' = m
       ELSE /\ trace' = Append(trace, RecvEv(m))
            /\ UNCHANGED <<pc, cur>>
    /\ UNCHANGED <<media, apart, peer, started, invitePc, ret, stopReason, dialogState, termEvent,
                   callState, transactions, nextBranch, authRetry, remoteTag,
                   sipRunning, sipClosed, rtp>>

\* after the ACK of the 487: Failed, then update_state
CancelledAfterAck ==
    /\ pc[Rx] = "cancelled_acked"
    /\ callState' = "FAILED"
    /\ trace' = StateTrace(trace, callState, "FAILED")
    /\ dialogState' = update_state(dialogState, transactions, cur)
    /\ termEvent' = EventAfter(termEvent, dialogState')
    /\ pc' = RxIdle(pc)
    /\ cur' = NoMsg
    /\ UNCHANGED <<media, apart, peer, started, invitePc, ret, stopReason, transactions,
                   nextBranch, authRetry, remoteTag, sipRunning, sipClosed,
                   rtp, nrecv>>

\* a stop called by a handler ends with _cleanup_rtp and returns into the
\* handler, which runs to its end
RxStopCleanup ==
    /\ pc[Rx] = "stop_cleanup"
    /\ rtp' = cleanup_rtp(rtp)
    /\ trace' = CleanupTrace(trace, rtp)
    /\ callState' = IF ret = "answered" THEN "ANSWERED" ELSE callState
    /\ dialogState' = IF ret \in {"answered", "bye"}
                      THEN update_state(dialogState, transactions, cur) ELSE dialogState
    /\ termEvent' = IF ret \in {"answered", "bye"}
                    THEN EventAfter(termEvent, dialogState') ELSE termEvent
    /\ pc' = RxIdle(pc)
    /\ cur' = NoMsg
    /\ ret' = "none"
    /\ UNCHANGED <<media, apart, peer, started, invitePc, stopReason, transactions, nextBranch,
                   authRetry, remoteTag, sipRunning, sipClosed, nrecv>>

Next ==
    \/ Start
    \/ Invite
    \/ \E m \in Incoming : RecvQuick(m)
    \/ ErrorAfterAck
    \/ \E m \in Incoming : RecvAuth(m)
    \/ AuthAfterAck
    \/ AuthAfterReinvite
    \/ \E m \in Incoming : RecvInviteOK(m)
    \/ InviteOKAfterAck
    \/ \E m \in Incoming : RecvBye(m)
    \/ ByeAfterOK
    \/ \E m \in Incoming : RecvCancelled(m)
    \/ CancelledAfterAck
    \/ RxStopCleanup
    \/ \E u \in Users : UserStop(u)
    \/ \E p \in Procs : StopWait(p)
    \/ \E u \in Users : UserStopCleanup(u)

Spec == Init /\ [][Next]_vars

\* the timer of wait_for runs out: a stop that waits does not wait forever
StopTasks == 0..1
SpecLive == Init /\ [][Next]_vars /\ \A p \in StopTasks : WF_vars(StopWait(p))

----------------------------------------------------------------------------
(* A peer that only challenges the INVITE (401) and sends provisional      *)
(* responses: the authentication retries                                   *)

InitAuth == InitCall /\ InitIdleMedia /\ InitApart /\ Tasks(1) /\ peer = "auth"

NextAuth ==
    \/ Start
    \/ Invite
    \/ \E m \in Incoming : RecvQuick(m)
    \/ \E m \in Incoming : RecvAuth(m)
    \/ AuthAfterAck
    \/ AuthAfterReinvite
    \/ RxStopCleanup
    \/ \E u \in Users : UserStop(u)
    \/ \E p \in Procs : StopWait(p)
    \/ \E u \in Users : UserStopCleanup(u)

SpecAuth == InitAuth /\ [][NextAuth]_vars

----------------------------------------------------------------------------
(* A user who calls stop repeatedly                                        *)

InitStops == InitCall /\ InitIdleMedia /\ InitApart /\ Tasks(MaxStops) /\ peer = "stops"

SpecStops == InitStops /\ [][Next]_vars

----------------------------------------------------------------------------
(* A peer that rings and answers the CANCEL of the call: 200 to the CANCEL *)
(* and 487 to the INVITE                                                   *)

InitCancel == InitCall /\ InitIdleMedia /\ InitApart /\ Tasks(1) /\ peer = "cancel"

NextCancel ==
    \/ Start
    \/ Invite
    \/ \E m \in Incoming : RecvQuick(m)
    \/ \E m \in Incoming : RecvCancelled(m)
    \/ CancelledAfterAck
    \/ \E u \in Users : UserStop(u)
    \/ \E p \in Procs : StopWait(p)
    \/ \E u \in Users : UserStopCleanup(u)

SpecCancel == InitCancel /\ [][NextCancel]_vars

----------------------------------------------------------------------------
(* A transport that breaks: the socket of the SIP connection fails, after  *)
(* which every send and the read of the receive task raise                 *)

InitBroken == InitCall /\ InitIdleMedia /\ InitApart /\ Tasks(1) /\ peer = "broken"

\* the socket breaks
TransportBreak ==
    /\ started
    /\ sipRunning
    /\ ~sipClosed
    /\ sipClosed' = TRUE
    /\ UNCHANGED <<media, apart, started, invitePc, pc, cur, ret, stopReason, dialogState,
                   termEvent, callState, transactions, nextBranch, authRetry,
                   remoteTag, sipRunning, rtp, nrecv, peer, trace>>

\* SipCore.receive: the read of the receive task raises
ReadFail ==
    /\ started
    /\ pc[Rx] = "idle"
    /\ sipRunning
    /\ sipClosed
    /\ pc' = [pc EXCEPT ![Rx] = "dead"]
    /\ trace' = Append(trace, FailedEv("read"))
    /\ UNCHANGED <<media, apart, started, invitePc, cur, ret, stopReason, dialogState,
                   termEvent, callState, transactions, nextBranch, authRetry,
                   remoteTag, sipRunning, sipClosed, rtp, nrecv, peer>>

NextBroken ==
    \/ Next
    \/ TransportBreak
    \/ ReadFail

SpecBroken == InitBroken /\ [][NextBroken]_vars

----------------------------------------------------------------------------
(* A call whose peer rejects the BYE or the CANCEL of the call             *)

InitTeardown == InitCall /\ InitIdleMedia /\ InitApart /\ Tasks(1) /\ peer = "teardown"

SpecTeardown == InitTeardown /\ [][Next]_vars

----------------------------------------------------------------------------
(* A call whose peer answers and repeats its responses                     *)

InitAnswer == InitCall /\ InitIdleMedia /\ InitApart /\ Tasks(1) /\ peer = "answer"

NextAnswer ==
    \/ Start
    \/ Invite
    \/ \E m \in Incoming : RecvQuick(m)
    \/ \E m \in Incoming : RecvInviteOK(m)
    \/ InviteOKAfterAck
    \/ \E u \in Users : UserStop(u)
    \/ \E p \in Procs : StopWait(p)
    \/ \E u \in Users : UserStopCleanup(u)

SpecAnswer == InitAnswer /\ [][NextAnswer]_vars

----------------------------------------------------------------------------
(* A call that receives messages of other calls only                       *)

InitForeign == InitCall /\ InitIdleMedia /\ InitApart /\ Tasks(1) /\ peer = "foreign"

NextForeign ==
    \/ Start
    \/ Invite
    \/ \E m \in Incoming : RecvQuick(m)
    \/ ErrorAfterAck
    \/ RxStopCleanup
    \/ \E u \in Users : UserStop(u)
    \/ \E p \in Procs : StopWait(p)
    \/ \E u \in Users : UserStopCleanup(u)

SpecForeign == InitForeign /\ [][NextForeign]_vars

----------------------------------------------------------------------------
(* RtpPacket (PySIP/rtp_handler.py): the header of the packets of a stream *)
(*                                                                         *)
(* A 32-bit value is kept as its two 16-bit halves <<high, low>>.          *)

W16 == 65536

\* t + n for a value t below 2^32 and a small n; the high half of the sum
\* may reach 2^16
Plus(t, n) == <<t[1] + (t[2] + n) \div W16, (t[2] + n) % W16>>

\* x % 4294967295 for x below 2 * 4294967295
Mod4294967295(x) ==
    IF x[1] >= W16 \/ x = <<W16 - 1, W16 - 1>>
    THEN LET y == Plus(x, 1) IN <<y[1] % W16, y[2]>>
    ELSE x

\* int.to_bytes(2, byteorder="big") and int.to_bytes(4, byteorder="big")
to_bytes2(n) == <<n \div 256, n % 256>>
to_bytes4(t) == to_bytes2(t[1]) \o to_bytes2(t[2])

\* RtpPacket.get_header: the sequence number and the timestamp of the
\* packet, then the counters of the next one
get_header(pk, len) ==
    [out_sequence |-> (pk.out_sequence + 1) % 65535,
     out_timestamp |-> Mod4294967295(Plus(pk.out_timestamp, len)),
     sent |-> Append(pk.sent, [seq |-> to_bytes2(pk.out_sequence),
                               ts  |-> to_bytes4(pk.out_timestamp)])]

\* the values out_sequence and out_timestamp start from or come to
SeqStarts == {200, 800, 65532, 65533, 65534}
TsStarts == {<<0, 500>>, <<0, 5000>>, <<W16 - 1, W16 - 1 - 320>>,
             <<W16 - 1, W16 - 1 - 160>>, <<W16 - 1, W16 - 2>>}

\* the length of a frame of 20 ms at 8 kHz
PayloadLens == {160}

InitRtp ==
    /\ InitCall /\ InitApart /\ Tasks(1) /\ peer = "rtp"
    /\ rtpPacket \in {[out_sequence |-> q, out_timestamp |-> t, sent |-> <<>>] :
                          q \in SeqStarts, t \in TsStarts}
    /\ rfc2833 = NoEvents
    /\ dtmfHandler = NoKeys
    /\ rtpClient = NoClient

\* RtpPacket.generate_packet
generate_packet(len) ==
    /\ Len(rtpPacket.sent) < MaxPackets
    /\ rtpPacket' = get_header(rtpPacket, len)
    /\ UNCHANGED <<apart, started, invitePc, pc, cur, ret, stopReason, dialogState,
                   termEvent, callState, transactions, nextBranch, authRetry,
                   remoteTag, sipRunning, sipClosed, rtp, nrecv, peer, trace,
                   rfc2833, dtmfHandler, rtpClient>>

NextRtp == \E len \in PayloadLens : generate_packet(len)

SpecRtp == InitRtp /\ [][NextRtp]_vars

----------------------------------------------------------------------------
(* RTPClient._handle_rfc_2833 (PySIP/rtp_handler.py): the telephone-event  *)
(* packets of one key press                                                *)

dtmf_mapping == <<"0", "1", "2", "3", "4", "5", "6", "7", "8", "9", "*", "#",
                  "A", "B", "C", "D">>

\* the events (payload[0]) of the keys pressed: "1" and "#"
PressedEvents == {1, 11}
PressTimestamp == 1000

\* the packets of a key press: one event and one RTP timestamp, any marker
\* bit, the end bit set or not
EventPackets ==
    [event : PressedEvents, marker : BOOLEAN, end : BOOLEAN,
     timestamp : {PressTimestamp}]

\* the packet continues the key press: the same event; after the packet
\* with the end bit come only its retransmissions
ContinuesPress(pkts, pk) ==
    pkts # <<>> =>
        /\ pk.event = Last(pkts).event
        /\ Last(pkts).end => pk = Last(pkts)

InitRfc2833 ==
    /\ InitCall /\ InitApart /\ Tasks(1) /\ peer = "rfc2833"
    /\ rtpPacket = NoPacket
    /\ rfc2833 = NoEvents
    /\ dtmfHandler = NoKeys
    /\ rtpClient = NoClient

\* RTPClient._handle_rfc_2833(packet), with one callback registered
handle_rfc_2833(packet) ==
    /\ Len(rfc2833.packets) < MaxDtmfPackets
    /\ ContinuesPress(rfc2833.packets, packet)
    /\ rfc2833' =
          [packets |-> Append(rfc2833.packets, packet),
           calls |-> IF ~packet.marker
                     THEN rfc2833.calls
                     ELSE Append(rfc2833.calls, dtmf_mapping[packet.event + 1])]
    /\ UNCHANGED <<apart, started, invitePc, pc, cur, ret, stopReason, dialogState,
                   termEvent, callState, transactions, nextBranch, authRetry,
                   remoteTag, sipRunning, sipClosed, rtp, nrecv, peer, trace,
                   rtpPacket, dtmfHandler, rtpClient>>

NextRfc2833 == \E packet \in EventPackets : handle_rfc_2833(packet)

SpecRfc2833 == InitRfc2833 /\ [][NextRfc2833]_vars

----------------------------------------------------------------------------
(* DTMFHandler (PySIP/sip_call.py): get_dtmf reads the queue that          *)
(* dtmf_callback fills                                                     *)

Keys == {"1", "2", "#"}
FinishKeys == {"#"}

\* the sequences of at most n keys
KeySeqs(n) == UNION {[1..l -> Keys] : l \in 0..n}

\* the keys dtmf_callback has queued when get_dtmf(finish_on_key=k) starts
InitDtmf ==
    /\ InitCall /\ InitApart /\ Tasks(1) /\ peer = "dtmf"
    /\ rtpPacket = NoPacket
    /\ rfc2833 = NoEvents
    /\ rtpClient = NoClient
    /\ dtmfHandler \in {[queue |-> q, finish_on_key |-> k, dtmf_codes |-> <<>>,
                           returned |-> FALSE, typed |-> q] :
                            q \in KeySeqs(MaxKeys), k \in FinishKeys}

\* DTMFHandler.get_dtmf with finish_on_key: one turn of its loop, which
\* takes a key off the queue
get_dtmf ==
    /\ ~dtmfHandler.returned
    /\ dtmfHandler.queue # <<>>
    /\ LET code == Head(dtmfHandler.queue)
       IN dtmfHandler' =
            IF dtmfHandler.dtmf_codes # <<>> /\ code = dtmfHandler.finish_on_key
            THEN [dtmfHandler EXCEPT !.queue = Tail(@), !.returned = TRUE]
            ELSE [dtmfHandler EXCEPT !.queue = Tail(@),
                                     !.dtmf_codes = Append(@, code)]
    /\ UNCHANGED <<apart, started, invitePc, pc, cur, ret, stopReason, dialogState,
                   termEvent, callState, transactions, nextBranch, authRetry,
                   remoteTag, sipRunning, sipClosed, rtp, nrecv, peer, trace,
                   rtpPacket, rfc2833, rtpClient>>

NextDtmf == get_dtmf

SpecDtmf == InitDtmf /\ [][NextDtmf]_vars

----------------------------------------------------------------------------
(* DTMFHandler: dtmf_callback and sequential calls of get_dtmf(length=N)   *)
(*                                                                         *)
(* typed are the keys received so far, results what the calls returned,    *)
(* left the turns the running call still has to make (-1: no call runs).   *)

Lengths == {0, 1, 2}

InitDtmfLen ==
    /\ InitCall /\ InitApart /\ Tasks(1) /\ peer = "dtmflen"
    /\ rtpPacket = NoPacket
    /\ rfc2833 = NoEvents
    /\ rtpClient = NoClient
    /\ dtmfHandler = [queue |-> <<>>, typed |-> <<>>, dtmf_codes |-> <<>>,
                      length |-> 0, left |-> -1, results |-> <<>>]

\* DTMFHandler.dtmf_callback(code)
dtmf_callback(code) ==
    /\ Len(dtmfHandler.typed) < MaxKeys
    /\ dtmfHandler' = [dtmfHandler EXCEPT !.queue = Append(@, code),
                                          !.typed = Append(@, code)]
    /\ UNCHANGED <<sip, apart, rtpPacket, rfc2833, rtpClient>>

\* faulty variant: the queue hands out its newest key
queue_get_Newest(q) == Last(q)

\* asyncio.Queue.get: the oldest key of the queue
queue_get(q) == Head(q)

\* what get_dtmf returns: "".join(dtmf_codes), kept with the length asked
Returned(h, codes) ==
    Append(h.results, [length |-> h.length, keys |-> codes])

\* get_dtmf(length=n) is called; with n = 0 it returns at once
get_dtmf_length(n) ==
    /\ dtmfHandler.left = -1
    /\ Len(dtmfHandler.results) < MaxGets
    /\ dtmfHandler' =
          IF n = 0
          THEN [dtmfHandler EXCEPT !.length = 0,
                   !.results = Returned([dtmfHandler EXCEPT !.length = 0], <<>>)]
          ELSE [dtmfHandler EXCEPT !.length = n, !.left = n,
                                   !.dtmf_codes = <<>>]
    /\ UNCHANGED <<sip, apart, rtpPacket, rfc2833, rtpClient>>

\* one turn of the loop of get_dtmf(length=n): a key is taken off the
\* queue; after the last turn the call returns
get_dtmf_turn ==
    /\ dtmfHandler.left > 0
    /\ dtmfHandler.queue # <<>>
    /\ LET codes == Append(dtmfHandler.dtmf_codes, queue_get(dtmfHandler.queue))
       IN dtmfHandler' =
            IF dtmfHandler.left = 1
            THEN [dtmfHandler EXCEPT !.queue = Tail(@), !.dtmf_codes = <<>>,
                                     !.left = -1,
                                     !.results = Returned(dtmfHandler, codes)]
            ELSE [dtmfHandler EXCEPT !.queue = Tail(@), !.dtmf_codes = codes,
                                     !.left = @ - 1]
    /\ UNCHANGED <<sip, apart, rtpPacket, rfc2833, rtpClient>>

NextDtmfLen ==
    \/ \E code \in Keys : dtmf_callback(code)
    \/ \E n \in Lengths : get_dtmf_length(n)
    \/ get_dtmf_turn

SpecDtmfLen == InitDtmfLen /\ [][NextDtmfLen]_vars

----------------------------------------------------------------------------
(* RTPClient (PySIP/rtp_handler.py): the codec it selects, its running     *)
(* flag, its send loop and its receive loop                                *)

Codecs == {"PCMU", "PCMA", "G722", "EVENT"}
SUPPORTED_CODEC == {"PCMU", "PCMA"}

\* int(PayloadType): the payload type number of a codec
PayloadNumber(codec) ==
    CASE codec = "PCMU" -> 0
      [] codec = "PCMA" -> 8
      [] codec = "G722" -> 9
      [] OTHER          -> 101

\* chr(n).encode("utf8"): one byte below 128, two bytes from 128 on
chr_utf8(n) == IF n < 128 THEN <<n>> ELSE <<192 + (n \div 64), 128 + (n % 64)>>

\* the remote rtpmaps: the codecs offered, in the order of the SDP
Rtpmaps ==
    {m \in UNION {[1..l -> Codecs] : l \in 0..MaxCodecs} :
        \A i \in 1..Len(m) : \A j \in 1..Len(m) : m[i] = m[j] => i = j}

\* faulty variant: the first codec offered is selected
select_audio_codecs_First(offered_codecs) ==
    IF offered_codecs # <<>> THEN offered_codecs[1] ELSE "raise"

\* RTPClient.select_audio_codecs: the first codec offered that is
\* supported, else NoSupportedCodecsFound is raised
select_audio_codecs(offered_codecs) ==
    IF \E i \in 1..Len(offered_codecs) : offered_codecs[i] \in SUPPORTED_CODEC
    THEN offered_codecs[CHOOSE i \in 1..Len(offered_codecs) :
            /\ offered_codecs[i] \in SUPPORTED_CODEC
            /\ \A j \in 1..(i - 1) : offered_codecs[j] \notin SUPPORTED_CODEC]
    ELSE "raise"

\* the frames on the input queue: 160 bytes of audio, or the empty frame
FrameLens == {160, 0}

InitRtpClient ==
    /\ InitCall /\ InitApart /\ Tasks(1) /\ peer = "rtpclient"
    /\ rtpPacket = NoPacket
    /\ rfc2833 = NoEvents
    /\ dtmfHandler = NoKeys
    /\ rtpClient \in {[state |-> "new", offered_codecs |-> m,
                         selected_codec |-> "none", is_running |-> FALSE,
                         cleared |-> FALSE, input_q |-> <<>>, frames |-> 0,
                         sendPc |-> "idle", recvPc |-> "idle",
                         read_stopped |-> FALSE,
                         written |-> <<>>, audio_sent |-> FALSE] :
                          m \in Rtpmaps}

\* RTPClient.__init__: the codec is selected and the RtpPacket is created
RTPClient_init ==
    /\ rtpClient.state = "new"
    /\ LET codec == select_audio_codecs(rtpClient.offered_codecs)
       IN IF codec = "raise"
          THEN /\ rtpClient' = [rtpClient EXCEPT !.state = "raised"]
               /\ UNCHANGED rtpPacket
          ELSE /\ rtpClient' = [rtpClient EXCEPT !.state = "built",
                                                 !.selected_codec = codec]
               /\ rtpPacket' = [out_sequence |-> 200,
                                out_timestamp |-> <<0, 500>>, sent |-> <<>>]
    /\ UNCHANGED <<sip, apart, rfc2833, dtmfHandler>>

\* RTPClient.start: the running flag is set and the two loops begin
RTPClient_start ==
    /\ rtpClient.state = "built"
    /\ rtpClient.sendPc = "idle"
    /\ ~rtpClient.cleared
    /\ rtpClient' = [rtpClient EXCEPT !.is_running = TRUE, !.sendPc = "loop",
                                      !.recvPc = "check"]
    /\ UNCHANGED <<sip, apart, rtpPacket, rfc2833, dtmfHandler>>

\* the running flag is cleared
clear_running ==
    /\ rtpClient.state = "built"
    /\ rtpClient.is_running
    /\ rtpClient' = [rtpClient EXCEPT !.is_running = FALSE, !.cleared = TRUE]
    /\ UNCHANGED <<sip, apart, rtpPacket, rfc2833, dtmfHandler>>

\* the audio stream puts a frame on the input queue
put_frame(len) ==
    /\ rtpClient.state = "built"
    /\ rtpClient.frames < MaxFrames
    /\ rtpClient' = [rtpClient EXCEPT !.input_q = Append(@, len),
                                      !.frames = @ + 1]
    /\ UNCHANGED <<sip, apart, rtpPacket, rfc2833, dtmfHandler>>

\* one turn of the send loop: a frame is taken off the input queue.  For
\* the empty frame the log line names "source", which no scope defines:
\* NameError leaves the loop before set_result.  Any other frame is put
\* into a packet, which is written to the socket
send_turn ==
    /\ rtpClient.sendPc = "loop"
    /\ rtpClient.input_q # <<>>
    /\ LET payload == Head(rtpClient.input_q)
       IN IF payload = 0
          THEN /\ rtpClient' = [rtpClient EXCEPT !.input_q = Tail(@),
                                                 !.sendPc = "raised"]
               /\ UNCHANGED rtpPacket
          ELSE /\ rtpPacket' = get_header(rtpPacket, payload)
               /\ rtpClient' =
                     [rtpClient EXCEPT
                        !.input_q = Tail(@),
                        !.written = Append(@,
                           [pt |-> chr_utf8(PayloadNumber(rtpClient.selected_codec)),
                            seq |-> to_bytes2(rtpPacket.out_sequence),
                            running |-> rtpClient.is_running])]
    /\ UNCHANGED <<sip, apart, rfc2833, dtmfHandler>>

\* the receive loop tests the running flag at the top of every turn;
\* read_stopped: it has gone on to read after the flag was cleared
receive_check ==
    /\ rtpClient.recvPc = "check"
    /\ LET next == IF rtpClient.is_running THEN "read" ELSE "done"
       IN rtpClient' = [rtpClient EXCEPT
                          !.recvPc = next,
                          !.read_stopped = @ \/ (next = "read" /\ rtpClient.cleared)]
    /\ UNCHANGED <<sip, apart, rtpPacket, rfc2833, dtmfHandler>>

\* the read of the receive loop returns, with data or by its 0.5 s timeout
receive_read ==
    /\ rtpClient.recvPc = "read"
    /\ rtpClient' = [rtpClient EXCEPT !.recvPc = "check"]
    /\ UNCHANGED <<sip, apart, rtpPacket, rfc2833, dtmfHandler>>

NextRtpClient ==
    \/ RTPClient_init
    \/ RTPClient_start
    \/ clear_running
    \/ \E len \in FrameLens : put_frame(len)
    \/ send_turn
    \/ receive_check
    \/ receive_read

SpecRtpClient == InitRtpClient /\ [][NextRtpClient]_vars

----------------------------------------------------------------------------
(* SipCall.start and the three tasks it spawns                             *)

\* _tasks: receive_task, call_task (invite), call_handler_task
TaskIds == {1, 2, 3}
InviteTask == 2

\* how a task ends when nobody cancels it: it returns, it raises, or (the
\* receive pump and the call handler, which wait on timers and sockets) a
\* CancelledError comes out of it
Ends(t) ==
    IF t = InviteTask THEN {"done", "failed"}
    ELSE {"done", "failed", "cancelled"}

\* how a task ends once its cancel() was called: invite has no handler and
\* ends cancelled; the receive pump and the call handler end cancelled or
\* swallow the CancelledError and return
OnCancel(t) ==
    IF t = InviteTask THEN {"cancelled"} ELSE {"cancelled", "done"}

InitStart ==
    /\ InitCall /\ InitIdleMedia /\ Tasks(1) /\ peer = "start"
    /\ starter = [pc |-> "init", spawned |-> FALSE, i |-> 1, exit |-> "none",
                  cancelling |-> FALSE, g |-> "pending",
                  tasks |-> [t \in TaskIds |-> [st |-> "none", req |-> FALSE]]]
    /\ voip = NoVoip

\* asyncio.gather(*_tasks, return_exceptions=False): the first task that
\* raises or ends cancelled settles the gathering with that exception; the
\* last task to finish settles it with the results, or with CancelledError
\* when the gathering was cancelled
gather(g, tasks, how, cancelling) ==
    IF g # "pending" THEN g
    ELSE IF how = "failed" THEN "exc"
    ELSE IF how = "cancelled" THEN "cancelled"
    ELSE IF \A t \in TaskIds : tasks[t].st # "running"
    THEN (IF cancelling THEN "cancelled" ELSE "result")
    ELSE "pending"

\* start up to the gather: connect, then the three tasks are created; a
\* connect that raises is logged and start returns through the finally
start_connect ==
    /\ starter.pc = "init"
    /\ \E ok \in BOOLEAN :
          starter' = IF ok
                     THEN [starter EXCEPT
                              !.pc = "gather", !.spawned = TRUE,
                              !.tasks = [t \in TaskIds |->
                                            [st |-> "running", req |-> FALSE]]]
                     ELSE [starter EXCEPT !.pc = "finally", !.exit = "return"]
    /\ UNCHANGED <<sip, media, voip>>

\* the task that runs start is cancelled: in connect the CancelledError
\* goes through the finally; in the gather the pending gathering cancels
\* its tasks; in the finally the task awaited is cancelled already
start_cancelled ==
    /\ ~starter.cancelling
    /\ starter.pc \in {"init", "gather", "finally_await"}
    /\ starter' =
          IF starter.pc = "init"
          THEN [starter EXCEPT !.cancelling = TRUE, !.pc = "finally",
                               !.exit = "raise"]
          ELSE IF starter.pc = "gather" /\ starter.g = "pending"
          THEN [starter EXCEPT
                   !.cancelling = TRUE,
                   !.tasks = [t \in TaskIds |->
                                 [@[t] EXCEPT !.req = @ \/ starter.tasks[t].st = "running"]]]
          ELSE [starter EXCEPT !.cancelling = TRUE]
    /\ UNCHANGED <<sip, media, voip>>

\* a task ends by itself
task_ends(t, how) ==
    /\ starter.tasks[t].st = "running" /\ ~starter.tasks[t].req
    /\ how \in Ends(t)
    /\ LET ts == [starter.tasks EXCEPT ![t].st = how]
       IN starter' = [starter EXCEPT
                         !.tasks = ts,
                         !.g = gather(@, ts, how, starter.cancelling)]
    /\ UNCHANGED <<sip, media, voip>>

\* a task whose cancel() was called ends
task_cancelled(t, how) ==
    /\ starter.tasks[t].st = "running" /\ starter.tasks[t].req
    /\ how \in OnCancel(t)
    /\ LET ts == [starter.tasks EXCEPT ![t].st = how]
       IN starter' = [starter EXCEPT
                         !.tasks = ts,
                         !.g = gather(@, ts, how, starter.cancelling)]
    /\ UNCHANGED <<sip, media, voip>>

\* the await of the gather ends: with its results; with the exception of
\* a task, which is logged before start returns; with a CancelledError,
\* which is raised again when start itself was cancelled and dropped when
\* it was not
gather_resumes ==
    /\ starter.pc = "gather"
    /\ starter.g # "pending"
    /\ starter' = [starter EXCEPT
                      !.pc = "finally", !.i = 1,
                      !.exit = IF starter.cancelling THEN "raise" ELSE "return"]
    /\ UNCHANGED <<sip, media, voip>>

\* faulty variant: the task is cancelled and not awaited
finally_next_NoAwait(i) == [pc |-> "finally", i |-> i + 1]

\* finally: after _task.cancel() the task is awaited
finally_next(i) == [pc |-> "finally_await", i |-> i]

\* finally: the next task of _tasks; one that is done is skipped, one that
\* is not is cancelled; after the last one start returns or raises
finally_step ==
    /\ starter.pc = "finally"
    /\ starter' =
          IF ~starter.spawned \/ starter.i \notin TaskIds
          THEN [starter EXCEPT !.pc = "end"]
          ELSE IF starter.tasks[starter.i].st # "running"
          THEN [starter EXCEPT !.i = @ + 1]
          ELSE [starter EXCEPT
                   !.tasks[starter.i].req = TRUE,
                   !.pc = finally_next(starter.i).pc,
                   !.i = finally_next(starter.i).i]
    /\ UNCHANGED <<sip, media, voip>>

\* finally: the await of the cancelled task ends; its CancelledError is
\* dropped, any other exception leaves the loop and start
finally_awaited ==
    /\ starter.pc = "finally_await"
    /\ starter.tasks[starter.i].st # "running"
    /\ starter' =
          IF starter.tasks[starter.i].st = "failed"
          THEN [starter EXCEPT !.pc = "end", !.exit = "raise"]
          ELSE [starter EXCEPT !.pc = "finally", !.i = @ + 1]
    /\ UNCHANGED <<sip, media, voip>>

NextStart ==
    \/ start_connect
    \/ start_cancelled
    \/ \E t \in TaskIds : \E how \in Ends(t) : task_ends(t, how)
    \/ \E t \in TaskIds : \E how \in OnCancel(t) : task_cancelled(t, how)
    \/ gather_resumes
    \/ finally_step
    \/ finally_awaited

SpecStart == InitStart /\ [][NextStart]_vars

----------------------------------------------------------------------------
(* The legacy VOIP class (call.py)                                         *)

\* the messages the client hands to the handlers: the INVITE it sent, with
\* or without credentials, and the responses to it, with or without a body
VoipMsg(type, status, auth, body) ==
    [type |-> type, status |-> status, auth |-> auth, body |-> body]
VoipIncoming ==
    {VoipMsg("MESSAGE", 0, a, TRUE) : a \in BOOLEAN}
    \cup {VoipMsg("RESPONSE", 100, FALSE, FALSE)}
    \cup {VoipMsg("RESPONSE", 180, FALSE, b) : b \in BOOLEAN}
    \cup {VoipMsg("RESPONSE", 183, FALSE, TRUE)}
    \cup {VoipMsg("RESPONSE", 200, FALSE, TRUE)}

\* VOIP.__init__
InitVoip ==
    /\ InitCall /\ InitIdleMedia /\ Tasks(1) /\ peer = "voip"
    /\ starter = NoStart
    /\ voip = [call_state |-> "DIALING", status |-> "INACTIVE", flag |-> FALSE,
               last_body |-> FALSE, pracks |-> <<>>, invites |-> <<>>,
               n |-> 0, sessions |-> 0, writers |-> 0, declined |-> 0]

\* request_handler up to the await of the PRACK it sends: with the flag
\* set, a 180 or a 183 keeps its body and the handler goes on to make_call
request_handler(v, m) ==
    IF v.flag /\ m.status \in {180, 183}
    THEN [v EXCEPT !.last_body = @ \/ m.body,
                   !.pracks = Append(@, m.body)]
    ELSE v

\* the client hands a message to the handlers in the order they were
\* registered: request_handler runs first, handle_invite is due
voip_message(m) ==
    /\ voip.n < MaxVoipMsgs
    /\ m \in VoipIncoming
    /\ voip' = [request_handler(voip, m) EXCEPT
                    !.n = @ + 1, !.invites = Append(@, m)]
    /\ UNCHANGED <<sip, media, starter>>

\* handle_invite: the status follows the INVITE sent; a 200 answers the
\* call; while re-inviting, a response other than 100 sets the flag
handle_invite ==
    /\ voip.invites # <<>>
    /\ LET m == Head(voip.invites)
           st1 == IF m.type = "MESSAGE"
                  THEN (IF m.auth THEN "REINVITING" ELSE "REGISTERING")
                  ELSE IF m.status = 200 THEN "INVITED" ELSE voip.status
           cs1 == IF m.type # "MESSAGE" /\ m.status = 200
                  THEN "ANSWERED" ELSE voip.call_state
           set == st1 = "REINVITING" /\ m.status # 100 /\ m.type = "RESPONSE"
       IN voip' = [voip EXCEPT
                      !.invites = Tail(@), !.status = st1, !.call_state = cs1,
                      !.flag = @ \/ set,
                      !.last_body = @ \/ (set /\ m.body)]
    /\ UNCHANGED <<sip, media, starter>>

\* faulty variant: make_call declines only once the call is answered
make_call_acts_NotAnswered(call_state) == call_state # "ANSWERED"

\* make_call acts only while the call is dialing
make_call_acts(call_state) == call_state = "DIALING"

\* request_handler after the PRACK: make_call; when it acts the call is
\* ringing, and with a body to parse a session is created and started and
\* an audio_writer task is spawned
make_call ==
    /\ voip.pracks # <<>>
    /\ LET body == Head(voip.pracks) \/ voip.last_body
       IN voip' =
            IF ~make_call_acts(voip.call_state)
            THEN [voip EXCEPT !.pracks = Tail(@), !.declined = @ + 1]
            ELSE IF ~body
            THEN [voip EXCEPT !.pracks = Tail(@), !.call_state = "RINGING"]
            ELSE [voip EXCEPT !.pracks = Tail(@), !.call_state = "RINGING",
                              !.sessions = @ + 1, !.writers = @ + 1]
    /\ UNCHANGED <<sip, media, starter>>

NextVoip ==
    \/ \E m \in VoipIncoming : voip_message(m)
    \/ handle_invite
    \/ make_call

SpecVoip == InitVoip /\ [][NextVoip]_vars

----------------------------------------------------------------------------
(* Properties *)

Idx == 1..Len(trace)
IsSend(e, kind) == e.ev = "send" /\ e.arg = kind
IsTeardown(e) == IsSend(e, "BYE") \/ IsSend(e, "CANCEL")
Hangups == {i \in Idx : trace[i].ev = "hangup"}
ErrorStatuses == {st \in FinalStatuses : st \notin {401, 487} /\ st >= 400}
Quiescent == pc[Rx] = "idle" /\ \A u \in Users : pc[u] \in {"idle", "done", "dead"}

\* C1: with a registered hanged_up callback, two calls of stop yield exactly
\* one invocation of the callback in total (here: the two calls of the user
\* are over and no message was received)
C1_StopTwiceOneHangup ==
    ( /\ Cardinality({u \in Users : pc[u] = "done"}) = 2
      /\ \A u \in Users : pc[u] \in {"idle", "done"}
      /\ nrecv = 0 )
    => Cardinality(Hangups) = 1

\* C2: on a hang-up with an RTP session, the media engine has been stopped
\* before BYE or CANCEL is sent, the SIP transport is closed after that, and
\* the hanged_up callbacks fire last
C2_ShutdownOrder ==
    \A i \in Idx :
        (\E k \in 1..(i - 1) : trace[k].ev = "rtp_start") =>
            /\ IsTeardown(trace[i]) =>
                  \E j \in 1..(i - 1) : trace[j].ev = "rtp_stop"
            /\ trace[i].ev = "hangup" =>
                  /\ \E j \in 1..(i - 1) : trace[j].ev = "rtp_stop"
                  /\ \E j \in 1..(i - 1) : trace[j].ev = "sip_close"

\* C3: the RTP session runs only while the dialog is Confirmed
C3_MediaOnlyWhileConfirmed == rtp = "running" => dialogState = "CONFIRMED"

\* C4: the RTP session is created and started only after the ACK of a 2xx to
\* the INVITE has been sent
C4_MediaAfterAck ==
    \A i \in Idx :
        trace[i].ev = "rtp_start" =>
            \E j \in 1..(i - 1) : IsSend(trace[j], "ACK") /\ trace[j].st = 200

C4_Witness ==
    /\ rtp = "running"
    /\ \E i \in Idx : trace[i].ev = "rtp_start"

\* C5: a 407 to the INVITE is handled like a 401: stop is not invoked for it
\* and the call is not hung up with its phrase
C5_ProxyAuthNoTermination ==
    /\ cur.status = 407 => pc[Rx] \notin {"stop_wait", "stop_cleanup"}
    /\ \A i \in Idx : ~(trace[i].ev = "hangup" /\ trace[i].arg = Phrase(407))

\* C6: for any sequence of 401 and 1xx responses the retry counter never
\* exceeds 2 and at most 2 INVITEs with credentials are sent
C6_AuthRetryBounded ==
    /\ authRetry <= 2
    /\ Cardinality({i \in Idx : IsSend(trace[i], "INVITE+auth")}) <= 2

\* C7: when the retry limit is exceeded on a 401, the dialog is Terminated
\* and the call state is Failed when the hanged_up callbacks are invoked
C7_AuthFailedState ==
    (\E i \in Idx : /\ trace[i].ev = "hangup"
                    /\ trace[i].arg = "Unable to authenticate, check details")
    => (dialogState = "TERMINATED" /\ callState = "FAILED")

\* C8: on a 486, 600 or 603 of a known transaction an ACK is sent, the call
\* state is Busy, the dialog is Terminated, the hanged_up callback gets the
\* phrase of the status, and no RTP session is started afterwards
BusyHandled ==
    pc[Rx] = "stop_cleanup" /\ ret = "err" /\ cur.status \in BusyStatuses

C8_Busy ==
    /\ BusyHandled =>
          /\ \E i \in Idx : /\ IsSend(trace[i], "ACK")
                            /\ trace[i].br = cur.branch
                            /\ trace[i].st = cur.status
          /\ callState = "BUSY"
          /\ dialogState = "TERMINATED"
          /\ \E i \in Idx : /\ trace[i].ev = "hangup"
                            /\ trace[i].arg = Phrase(cur.status)
    /\ \A i \in Idx : \A j \in Idx :
          (i < j /\ IsSend(trace[i], "ACK") /\ trace[i].st \in BusyStatuses)
          => trace[j].ev # "rtp_start"

C8_Witness == BusyHandled /\ cur.status = 603 /\ rtp = "none"

\* C9: a terminal error invokes the hanged_up callbacks exactly once per
\* call, also when it arrives while the stop of the user has sent its CANCEL
\* or BYE and waits for Terminated
C9_ErrorHangsUpOnce ==
    ( /\ Quiescent
      /\ \E i \in Idx : \E r \in Idx : \E j \in Idx :
            /\ i < r /\ r < j
            /\ IsTeardown(trace[i])
            /\ trace[r].ev = "recv" /\ trace[r].st \in ErrorStatuses
            /\ trace[j].ev = "hangup" /\ trace[j].arg = Phrase(trace[r].st) )
    => Cardinality(Hangups) = 1

\* C10: when a 3xx to the INVITE is received in Initial or Early, an ACK is
\* sent for it and the dialog is Terminated
C10_RedirectAcked ==
    \A i \in Idx :
        ( /\ trace[i].ev = "recv"
          /\ trace[i].st \in 300..399
          /\ trace[i].ds \in {"INITIAL", "EARLY"} )
        => /\ \E j \in Idx : /\ i < j
                             /\ IsSend(trace[j], "ACK")
                             /\ trace[j].st = trace[i].st
           /\ dialogState = "TERMINATED"

\* C11: when the caller stops the call while it rings (dialog Initial or
\* Early) and the peer answers 200 to the CANCEL and 487 to the INVITE, an
\* ACK is sent for the 487, the call state ends as Ended and the hanged_up
\* callbacks are invoked once
CancelAnswered ==
    /\ Quiescent
    /\ \A u \in Users : pc[u] = "done"
    /\ \E c \in Idx : \E k \in Idx : \E r \in Idx :
          /\ c < k /\ c < r
          /\ IsSend(trace[c], "CANCEL")
          /\ trace[c].ds \in {"INITIAL", "EARLY"}
          /\ trace[k].ev = "recv" /\ trace[k].arg = "CANCEL"
          /\ trace[k].st = 200 /\ trace[k].br = trace[c].br
          /\ trace[r].ev = "recv" /\ trace[r].arg = "INVITE"
          /\ trace[r].st = 487 /\ trace[r].br = trace[c].br

C11_CancelWhileRinging ==
    CancelAnswered =>
        /\ \E a \in Idx : IsSend(trace[a], "ACK") /\ trace[a].st = 487
        /\ callState = "ENDED"
        /\ Cardinality(Hangups) = 1

\* C12: every CANCEL that stop sends carries the branch of an INVITE
\* transaction of the dialog, never the branch of an ACK or BYE transaction
C12_CancelOnInviteBranch ==
    \A i \in Idx :
        IsSend(trace[i], "CANCEL") => trace[i].br \in BranchesOf("INVITE")

\* C13: stop selects its teardown from the state of the dialog when it is
\* called: PreDialog and Terminated send no SIP request and close, Initial
\* and Early send exactly one CANCEL, Confirmed sends exactly one BYE
Stops == {i \in Idx : trace[i].ev = "stop"}
Teardowns(kind) == {i \in Idx : IsSend(trace[i], kind)}

C13_TeardownByState ==
    /\ \A i \in Stops :
          /\ i < Len(trace)
          /\ trace[i].ds \in {"PREDIALOG", "TERMINATED"} =>
                trace[i + 1].ev = "sip_close"
          /\ trace[i].ds \in {"INITIAL", "EARLY"} =>
                IsSend(trace[i + 1], "CANCEL")
          /\ trace[i].ds = "CONFIRMED" => IsSend(trace[i + 1], "BYE")
    /\ Cardinality(Teardowns("CANCEL")) =
          Cardinality({i \in Stops : trace[i].ds \in {"INITIAL", "EARLY"}})
    /\ Cardinality(Teardowns("BYE")) =
          Cardinality({i \in Stops : trace[i].ds = "CONFIRMED"})

\* C14: a stop that has sent its CANCEL or BYE and waits for Terminated
\* completes, also when the dialog never gets there: the running flag of
\* SIP is cleared, the connections are closed and the hanged_up callbacks
\* are invoked with the reason of that stop
StopCompleted(p) ==
    /\ pc[p] = "stop_cleanup"
    /\ ~sipRunning
    /\ sipClosed
    /\ Len(trace) > 0
    /\ Last(trace).ev = "hangup" /\ Last(trace).arg = stopReason[p]

C14_StopCompletes ==
    \A p \in StopTasks :
        (pc[p] = "stop_wait") ~> StopCompleted(p)

C14_Witness ==
    /\ \E p \in StopTasks : StopCompleted(p)
    /\ ~termEvent
    /\ \E i \in Idx : trace[i].ev = "wait_done" /\ trace[i].arg = "timeout"
    /\ \E i \in Idx : IsTeardown(trace[i])

\* C15: when the SDP of the 200 OK shares no codec with the supported set,
\* the error is followed by a CANCEL or a BYE and the call state is Failed
NoCodecRaised == pc[Rx] = "dead" /\ remote_session_info(cur) = "nocodec"

C15_NoCodecFails ==
    NoCodecRaised =>
        /\ \E r \in Idx : \E t \in Idx :
              /\ r < t
              /\ trace[r].ev = "recv" /\ trace[r].st = 200
              /\ trace[r].arg = "INVITE"
              /\ IsTeardown(trace[t])
        /\ callState = "FAILED"

\* C16: a failure of a read or a write of the SIP socket (in the receive
\* task, in the send of the INVITE, in a send of stop or of a handler)
\* triggers stop with the reason "TransportError", so that the hanged_up
\* callbacks are invoked with it
Settled == \A p \in Procs : pc[p] \in {"idle", "done", "dead"}

C16_TransportErrorStops ==
    \A i \in Idx :
        (trace[i].ev = "failed" /\ Settled) =>
            \E j \in Idx : \E k \in Idx :
                /\ i < j /\ j < k
                /\ trace[j].ev = "stop" /\ trace[j].arg = "TransportError"
                /\ trace[k].ev = "hangup" /\ trace[k].arg = "TransportError"

\* the numbers a receiver reads in the headers of the packets built
SeqOf(h) == h.seq[1] * 256 + h.seq[2]
TsOf(h) == <<h.ts[1] * 256 + h.ts[2], h.ts[3] * 256 + h.ts[4]>>
Sent == rtpPacket.sent

\* C17: over consecutive calls of generate_packet the 16-bit sequence
\* numbers go up by exactly 1 modulo 2^16, none skipped, also across the
\* wrap-around
C17_SequenceStepsByOne ==
    \A i \in 1..(Len(Sent) - 1) :
        SeqOf(Sent[i + 1]) = (SeqOf(Sent[i]) + 1) % W16

\* C18: for frames of 160 bytes the 32-bit timestamp goes up by exactly 160
\* modulo 2^32 from one packet to the next, also across the wrap-around
C18_TimestampStepsBy160 ==
    \A i \in 1..(Len(Sent) - 1) :
        TsOf(Sent[i + 1]) =
            LET x == Plus(TsOf(Sent[i]), 160) IN <<x[1] % W16, x[2]>>

\* C19: a key press carried by several telephone-event packets of one RTP
\* timestamp, the end bit set on the last one and on its retransmissions,
\* invokes each registered dtmf callback exactly once, whatever the marker
\* bits of the packets are
PressComplete == rfc2833.packets # <<>> /\ Last(rfc2833.packets).end

C19_OneCallPerKeyPress ==
    PressComplete =>
        rfc2833.calls = <<dtmf_mapping[Last(rfc2833.packets).event + 1]>>

\* C20: get_dtmf(finish_on_key=k) returns exactly the keys queued before
\* the first k, and what it returns never contains k, also when k is the
\* first key
BeforeFirst(q, k) ==
    IF \E i \in 1..Len(q) : q[i] = k
    THEN SubSeq(q, 1, (CHOOSE i \in 1..Len(q) :
                          q[i] = k /\ \A j \in 1..(i - 1) : q[j] # k) - 1)
    ELSE q

C20_KeysBeforeFinishKey ==
    dtmfHandler.returned =>
        /\ dtmfHandler.dtmf_codes =
              BeforeFirst(dtmfHandler.typed, dtmfHandler.finish_on_key)
        /\ \A i \in 1..Len(dtmfHandler.dtmf_codes) :
              dtmfHandler.dtmf_codes[i] # dtmfHandler.finish_on_key

\* C21: for any interleaving of dtmf_callback and sequential calls of
\* get_dtmf(length=N), each call returns exactly the next N keys in the
\* order they arrived: what the calls returned, one after the other, is a
\* prefix of the keys received, and no key is lost or returned twice
RECURSIVE Joined(_)
Joined(rs) == IF rs = <<>> THEN <<>> ELSE Head(rs).keys \o Joined(Tail(rs))

C21_NextKeysInOrder ==
    /\ \A i \in 1..Len(dtmfHandler.results) :
          Len(dtmfHandler.results[i].keys) = dtmfHandler.results[i].length
    /\ Len(Joined(dtmfHandler.results)) <= Len(dtmfHandler.typed)
    /\ Joined(dtmfHandler.results)
          = SubSeq(dtmfHandler.typed, 1, Len(Joined(dtmfHandler.results)))
    /\ Joined(dtmfHandler.results) \o dtmfHandler.dtmf_codes
          \o dtmfHandler.queue = dtmfHandler.typed

C21_Witness ==
    /\ Len(dtmfHandler.results) = 2
    /\ dtmfHandler.results[1].keys = <<"1", "2">>
    /\ dtmfHandler.results[2].keys = <<"#">>
    /\ dtmfHandler.typed = <<"1", "2", "#">>

\* C22: both loops of the media side look at the running flag on every
\* turn: once is_running is cleared the send loop writes no further packet,
\* whatever is or comes on the input queue, and the receive loop exits at
\* its next turn
C22_LoopsObserveRunningFlag ==
    rtpClient.state = "built" =>
        /\ \A i \in 1..Len(rtpClient.written) : rtpClient.written[i].running
        /\ ~rtpClient.read_stopped

\* C23: when the send loop takes the empty frame off the input queue, the
\* audio_sent_future of the stream gets its result and the loop ends, and
\* no packet is sent for the empty frame
SentinelTaken ==
    /\ rtpClient.state = "built"
    /\ rtpClient.sendPc \in {"done", "raised"}

C23_SentinelSignalsCompletion ==
    SentinelTaken =>
        /\ rtpClient.audio_sent
        /\ rtpClient.sendPc = "done"
        /\ Len(rtpClient.written) + Len(rtpClient.input_q) + 1
              = rtpClient.frames

\* C27: for every remote rtpmap the codec RTPClient selects, which is the
\* payload type of every packet built, is one of the codecs offered and is
\* PCMU or PCMA; if the rtpmap has neither, the construction fails with
\* NoSupportedCodecsFound and no packet is ever built
Offered == {rtpClient.offered_codecs[i] : i \in 1..Len(rtpClient.offered_codecs)}

C27_SelectedCodecOffered ==
    /\ rtpClient.state = "built" =>
          /\ rtpClient.selected_codec \in Offered \cap {"PCMU", "PCMA"}
          /\ \A i \in 1..Len(rtpClient.written) :
                rtpClient.written[i].pt = <<PayloadNumber(rtpClient.selected_codec)>>
    /\ rtpClient.state = "raised" =>
          /\ Offered \cap {"PCMU", "PCMA"} = {}
          /\ rtpClient.written = <<>> /\ rtpPacket.sent = <<>>
    /\ (rtpClient.state # "new" /\ Offered \cap {"PCMU", "PCMA"} = {}) =>
          rtpClient.state = "raised"

C27_Witness ==
    /\ rtpClient.state = "built"
    /\ rtpClient.offered_codecs = <<"G722", "PCMA">>
    /\ Len(rtpClient.written) = 2
    /\ rtpClient.written[2].pt = <<8>>

\* C24: the call state only moves forward along Initializing, Dialing,
\* Ringing, Answered, Ended (or to Busy or Failed): the state_changed
\* callbacks never report Dialing after Ringing, nor Dialing or Ringing
\* after Answered
Reported(i, state) == trace[i].ev = "state_changed" /\ trace[i].arg = state

C24_CallStateMovesForward ==
    \A i \in Idx : \A j \in Idx :
        i < j =>
            /\ ~(Reported(i, "RINGING") /\ Reported(j, "DAILING"))
            /\ ~(Reported(i, "ANSWERED") /\ Reported(j, "DAILING"))
            /\ ~(Reported(i, "ANSWERED") /\ Reported(j, "RINGING"))

----------------------------------------------------------------------------
\* the requests the call has sent; a CANCEL and the ACK of a non-2xx final
\* response belong to the transaction of an earlier request
IsRequest(i) == trace[i].ev = "send" /\ trace[i].arg # "200"
Reuses(i) ==
    \/ IsSend(trace[i], "CANCEL")
    \/ IsSend(trace[i], "ACK") /\ trace[i].st # 200

\* C25: every request the call sends (INVITE, INVITE with credentials, ACK,
\* CANCEL, BYE) carries a branch that no other request of the call carries.
C25_BranchUnique ==
    \A i \in Idx : \A j \in Idx :
        (i < j /\ IsRequest(i) /\ IsRequest(j)) => trace[i].br # trace[j].br

\* C25 as amended: an INVITE, an ACK of a 200 and a BYE carry a branch that
\* no earlier request of the call carries; a CANCEL and an ACK of a non-2xx
\* final response carry the branch of an earlier request of the call.
C25_FreshOrReused ==
    \A j \in Idx :
        IsRequest(j) =>
            IF Reuses(j)
            THEN \E i \in 1..(j - 1) :
                    IsRequest(i) /\ ~Reuses(i) /\ trace[i].br = trace[j].br
            ELSE \A i \in 1..(j - 1) :
                    IsRequest(i) => trace[i].br # trace[j].br

\* an INVITE was challenged and acknowledged on its branch, the second
\* INVITE was answered and acknowledged on a new branch, and a BYE went out
C25_Witness ==
    /\ \E i \in Idx : IsSend(trace[i], "ACK") /\ trace[i].st = 401
    /\ \E i \in Idx : IsSend(trace[i], "INVITE+auth")
    /\ \E i \in Idx : IsSend(trace[i], "ACK") /\ trace[i].st = 200
    /\ \E i \in Idx : IsSend(trace[i], "BYE")

----------------------------------------------------------------------------
\* C26: every ACK of a non-2xx final response (401, 487, the 4xx-6xx of
\* error_handler) carries the branch of an INVITE transaction of the
\* dialog, the one the response answers; a response whose branch matches
\* no transaction (branch 0) is not acknowledged.
C26_AckOnInviteBranch ==
    \A j \in Idx :
        (IsSend(trace[j], "ACK") /\ trace[j].st # 200) =>
            trace[j].br \in BranchesOf("INVITE")

----------------------------------------------------------------------------
\* C28: at most one BYE is sent per dialog, however the calls of stop (of
\* the user, of message_handler, of error_handler) interleave with each
\* other and with the incoming messages.
C28_AtMostOneBye == Cardinality(Teardowns("BYE")) <= 1

----------------------------------------------------------------------------
\* the RTP sessions on_call_answered has created and started
Sessions == {i \in Idx : trace[i].ev = "rtp_start"}

\* C29: at most one RTP session is created per call, whatever responses
\* come in and in whatever order (a 1xx after the 200 and then the 200
\* again included).
C29_AtMostOneSession == Cardinality(Sessions) <= 1

----------------------------------------------------------------------------
\* message_handler hangs up on a BYE of the callee that finds the dialog
\* Confirmed
CalleeStop(j) ==
    /\ trace[j].ev = "stop" /\ trace[j].arg = "Callee hanged up"
    /\ trace[j].ds = "CONFIRMED"

\* C30: a BYE request of the callee received in Confirmed is answered with
\* 200 OK, and the call then hangs up at once: it sends no BYE of its own
\* and does not wait for a response of the peer.
C30_CalleeByeHangsUpAtOnce ==
    \A j \in Idx :
        CalleeStop(j) =>
            /\ \E i \in 1..(j - 1) : IsSend(trace[i], "200")
            /\ j < Len(trace) => /\ ~IsSend(trace[j + 1], "BYE")
                                 /\ trace[j + 1].ev = "sip_close"

----------------------------------------------------------------------------
\* the message the handlers are working on when event j is recorded: the
\* latest message received before it
Handled(j) ==
    {i \in 1..(j - 1) :
        /\ trace[i].ev = "recv"
        /\ \A k \in (i + 1)..(j - 1) : trace[k].ev # "recv"}

\* C31: an ACK is sent only for a final response to an INVITE; a 4xx-6xx
\* response to a CANCEL or to a BYE causes no ACK and does not make the
\* call Failed or Busy.
C31_AckOnlyForInvite ==
    \A j \in Idx :
        (\/ IsSend(trace[j], "ACK")
         \/ Reported(j, "FAILED") \/ Reported(j, "BUSY")) =>
            \A i \in Handled(j) : trace[i].arg = "INVITE"

----------------------------------------------------------------------------
\* start has returned or raised
StartOver == starter.pc = "end"

----------------------------------------------------------------------------
\* what only the handlers of incoming messages do: send an ACK or a 200,
\* report a call state, call stop with a reason of their own
ByHandler(j) ==
    \/ IsSend(trace[j], "ACK") \/ IsSend(trace[j], "200")
    \/ trace[j].ev = "state_changed"
    \/ trace[j].ev = "stop" /\ trace[j].arg # "Normal Stop"

\* C33: a message whose Call-ID is not the call's has no effect, whatever
\* its status and branch: while it is the message in hand the handlers
\* send nothing, report no call state and do not stop the call.
C33_ForeignCallIdIgnored ==
    \A j \in Idx : ByHandler(j) => \A i \in Handled(j) : trace[i].own

----------------------------------------------------------------------------
\* C34: in the legacy VOIP class make_call creates and starts an RTP
\* session, and spawns an audio_writer, at most once per call, however
\* often a 180 or a 183 comes in, before or after the 200.
C34_MakeCallOnce == voip.sessions <= 1 /\ voip.writers <= 1

\* a session was started, the call was answered, and make_call declined a
\* later 180 or 183
C34_Witness ==
    /\ voip.sessions = 1 /\ voip.writers = 1
    /\ voip.call_state = "ANSWERED"
    /\ voip.declined >= 1
====
